---- MODULE Spec2Model ----
(***************************************************************************)
(* create_stock_csv.py: hourly stock of a bike station, reconstructed from *)
(* the hourly net demand and the station's dock capacity.                  *)
(*                                                                         *)
(* Quantities (stock, net demand, capacity, truncations) are Python        *)
(* numbers that need not be whole.  They are modelled in fixed point: an   *)
(* integer n of the model stands for the quantity n / Scale, so that       *)
(* int(capacity) is a real conversion (truncation toward zero) and the     *)
(* candidates of range(int(capacity) + 1) are the multiples of Scale.      *)
(***************************************************************************)
EXTENDS Integers, Sequences, FiniteSets, TLC

\* ---------------------------------------------------------------- bounds
Scale == 2          \* fixed-point resolution: quantities are multiples of 1/Scale
MaxCapacity == 4    \* largest capacity, in units of 1/Scale
MaxDemand == 2      \* largest |net_demand|, in units of 1/Scale
MaxHours == 2       \* hours of a day are 0 .. MaxHours-1
MaxRows == 3        \* largest number of rows of df_test in a whole run

Hours == 0 .. (MaxHours - 1)
Demands == (0 - MaxDemand) .. MaxDemand
Capacities == (0 - Scale) .. MaxCapacity
InitialStocks == (0 - 1) .. (MaxCapacity + 1)
Days == {1, 2}
Stations == {1, 2}

\* ------------------------------------------------------ Python's values
\* None / a value: an optional is a sequence of length 0 or 1.
None == << >>
Some(x) == << x >>
\* float('inf'): truncations are never negative, so a negative number is free
\* to stand for it; Less is Python's < with inf on the right.
Inf == 0 - 1
Less(a, b) == IF b = Inf THEN TRUE ELSE a < b
Abs(x) == IF x < 0 THEN 0 - x ELSE x
\* int(x) of the quantity x/Scale: truncation toward zero.
IntOf(x) == IF x >= 0 THEN x \div Scale ELSE 0 - ((0 - x) \div Scale)

RECURSIVE SortedSeq(_)
\* sorted(S) for a set of integers
SortedSeq(S) ==
    IF S = {} THEN << >>
    ELSE LET m == CHOOSE x \in S : \A y \in S : x <= y
         IN  << m >> \o SortedSeq(S \ {m})

\* A row of df_test.
Row(day, hour, loc_id, net_demand) ==
    [day |-> day, hour |-> hour, loc_id |-> loc_id, net_demand |-> net_demand]

\* df['hour'].unique(), sorted
HoursOf(df) == SortedSeq({r.hour : r \in df})
\* df[df['hour'] == hour].iloc[0]['net_demand']
NetDemand(df, hour) == (CHOOSE r \in df : r.hour = hour).net_demand

\* ------------------------------------------------- the simulator (37-75)
\* State of calculate_stock_for_initial_value before its hour loop.
SimStart(initial_stock0) ==
    [current_stock |-> initial_stock0, stock_by_hour |-> << >>, truncations |-> 0]

\* stock_by_hour[hour] = value
DictSet(d, k, v) == [x \in (DOMAIN d) \cup {k} |-> IF x = k THEN v ELSE d[x]]

\* The body of the hour loop, with the stock recorded AFTER the hour's demand.
SimBodyRecordsAfter(st, df, hour, cap) ==
    LET new_stock == st.current_stock + NetDemand(df, hour)
        clamped == IF new_stock < 0 THEN 0
                   ELSE IF new_stock > cap THEN cap ELSE new_stock
        cost == IF new_stock < 0 THEN Abs(new_stock)
                ELSE IF new_stock > cap THEN new_stock - cap ELSE 0
    IN  [current_stock |-> clamped,
         stock_by_hour |-> DictSet(st.stock_by_hour, hour, clamped),
         truncations |-> st.truncations + cost]

\* The body of the hour loop, without the clamp to capacity.
SimBodyNoUpperClamp(st, df, hour, cap) ==
    LET new_stock == st.current_stock + NetDemand(df, hour)
    IN  IF new_stock < 0
        THEN [current_stock |-> 0,
              stock_by_hour |-> DictSet(st.stock_by_hour, hour, st.current_stock),
              truncations |-> st.truncations + Abs(new_stock)]
        ELSE IF new_stock > cap
        THEN [current_stock |-> new_stock,
              stock_by_hour |-> DictSet(st.stock_by_hour, hour, st.current_stock),
              truncations |-> st.truncations + (new_stock - cap)]
        ELSE [current_stock |-> new_stock,
              stock_by_hour |-> DictSet(st.stock_by_hour, hour, st.current_stock),
              truncations |-> st.truncations]

\* The body of the hour loop, without counting what is cut below 0.
SimBodyUnderflowNotCounted(st, df, hour, cap) ==
    LET new_stock == st.current_stock + NetDemand(df, hour)
    IN  IF new_stock < 0
        THEN [current_stock |-> 0,
              stock_by_hour |-> DictSet(st.stock_by_hour, hour, st.current_stock),
              truncations |-> st.truncations]
        ELSE IF new_stock > cap
        THEN [current_stock |-> cap,
              stock_by_hour |-> DictSet(st.stock_by_hour, hour, st.current_stock),
              truncations |-> st.truncations + (new_stock - cap)]
        ELSE [current_stock |-> new_stock,
              stock_by_hour |-> DictSet(st.stock_by_hour, hour, st.current_stock),
              truncations |-> st.truncations]

\* The body of the hour loop, counting an overflow as a single truncation.
SimBodyCountsEvents(st, df, hour, cap) ==
    LET new_stock == st.current_stock + NetDemand(df, hour)
    IN  IF new_stock < 0
        THEN [current_stock |-> 0,
              stock_by_hour |-> DictSet(st.stock_by_hour, hour, st.current_stock),
              truncations |-> st.truncations + Abs(new_stock)]
        ELSE IF new_stock > cap
        THEN [current_stock |-> cap,
              stock_by_hour |-> DictSet(st.stock_by_hour, hour, st.current_stock),
              truncations |-> st.truncations + 1]
        ELSE [current_stock |-> new_stock,
              stock_by_hour |-> DictSet(st.stock_by_hour, hour, st.current_stock),
              truncations |-> st.truncations]

\* The body of the hour loop (lines 54-73): record the stock at the start of
\* the hour, add the hour's net demand, clamp to [0, capacity] and count what
\* was cut.
SimBody(st, df, hour, cap) ==
    LET new_stock == st.current_stock + NetDemand(df, hour)
    IN  IF new_stock < 0
        THEN [current_stock |-> 0,
              stock_by_hour |-> DictSet(st.stock_by_hour, hour, st.current_stock),
              truncations |-> st.truncations + Abs(new_stock)]
        ELSE IF new_stock > cap
        THEN [current_stock |-> cap,
              stock_by_hour |-> DictSet(st.stock_by_hour, hour, st.current_stock),
              truncations |-> st.truncations + (new_stock - cap)]
        ELSE [current_stock |-> new_stock,
              stock_by_hour |-> DictSet(st.stock_by_hour, hour, st.current_stock),
              truncations |-> st.truncations]

RECURSIVE SimLoop(_, _, _, _)
\* The hour loop from state st over the remaining hours hs.
SimLoop(st, df, hs, cap) ==
    IF hs = << >> THEN st
    ELSE SimLoop(SimBody(st, df, Head(hs), cap), df, Tail(hs), cap)

\* calculate_stock_for_initial_value(df_day_station, initial_stock, capacity)
Simulate(df, initial_stock0, cap) ==
    SimLoop(SimStart(initial_stock0), df, HoursOf(df), cap)

\* ------------------------------------------------ the optimizer (78-104)
\* best_initial_stock, min_truncations, best_stock_by_hour before the scan.
OptStart ==
    [best_initial_stock |-> 0, min_truncations |-> Inf, best_stock_by_hour |-> None]

\* range(capacity_int), one candidate short.
CandidatesWithoutLast(cap) == [i \in 1 .. IntOf(cap) |-> (i - 1) * Scale]

\* range(int(capacity) + 1): the whole numbers 0 .. int(capacity), ascending,
\* as quantities (multiples of Scale); empty when int(capacity) < 0.
Candidates(cap) == [i \in 1 .. (IntOf(cap) + 1) |-> (i - 1) * Scale]

\* One candidate of the scan, the incumbent replaced on a tie as well.
OptBodyLastWins(best, df, initial_stock0, cap) ==
    LET r == Simulate(df, initial_stock0, cap)
    IN  IF best.min_truncations = Inf \/ r.truncations <= best.min_truncations
        THEN [best_initial_stock |-> initial_stock0,
              min_truncations |-> r.truncations,
              best_stock_by_hour |-> Some(r.stock_by_hour)]
        ELSE best

\* One candidate of the scan, the incumbent's trajectory not replaced with it.
OptBodyStaleTrajectory(best, df, initial_stock0, cap) ==
    LET r == Simulate(df, initial_stock0, cap)
    IN  IF Less(r.truncations, best.min_truncations)
        THEN [best_initial_stock |-> initial_stock0,
              min_truncations |-> r.truncations,
              best_stock_by_hour |->
                  IF best.best_stock_by_hour = None
                  THEN Some(r.stock_by_hour) ELSE best.best_stock_by_hour]
        ELSE best

\* One candidate of the scan (lines 95-102): simulate it and keep it when its
\* truncations are strictly lower than the incumbent's.
OptBody(best, df, initial_stock0, cap) ==
    LET r == Simulate(df, initial_stock0, cap)
    IN  IF Less(r.truncations, best.min_truncations)
        THEN [best_initial_stock |-> initial_stock0,
              min_truncations |-> r.truncations,
              best_stock_by_hour |-> Some(r.stock_by_hour)]
        ELSE best

RECURSIVE OptLoop(_, _, _, _)
\* The scan from incumbent best over the remaining candidates cs.
OptLoop(best, df, cs, cap) ==
    IF cs = << >> THEN best
    ELSE OptLoop(OptBody(best, df, Head(cs), cap), df, Tail(cs), cap)

\* find_optimal_initial_stock(df_day_station, capacity)
FindOptimal(df, cap) == OptLoop(OptStart, df, Candidates(cap), cap)

\* ------------------------------------------- create_stock_csv (107-165)
\* An entry of the capacity table: a number, or NaN.
NaN == [isnan |-> TRUE, value |-> 0]
Num(c) == [isnan |-> FALSE, value |-> c]
\* capacity_dict.get(loc_id)
DictGet(d, k) == IF k \in DOMAIN d THEN Some(d[k]) ELSE None

\* The row appended to results for one hour of a group (lines 143-147).
OutRow(r, stock, optimal_initial, total) ==
    [day |-> r.day, hour |-> r.hour, loc_id |-> r.loc_id,
     net_demand |-> r.net_demand, stock |-> stock,
     initial_stock |-> optimal_initial, total_truncations |-> total]

\* The rows of one group, in the order of stock_by_hour.items() (lines 142-147).
GroupRows(df, opt) ==
    LET sbh == opt.best_stock_by_hour[1]
        hs == SortedSeq(DOMAIN sbh)
    IN  [i \in 1 .. Len(hs) |->
            OutRow(CHOOSE r \in df : r.hour = hs[i], sbh[hs[i]],
                   opt.best_initial_stock, opt.min_truncations)]

\* Range of a sequence
Range(s) == {s[i] : i \in 1 .. Len(s)}

\* One pass of the loop body, the scan started where the station's previous
\* day ended instead of from its own data alone.
GroupStepCarryOver(res, table, dict, day, loc_id) ==
    LET df == {r \in table : r.day = day /\ r.loc_id = loc_id}
        got == DictGet(dict, loc_id)
        prev == {r \in Range(res) : r.loc_id = loc_id /\ r.day < day}
    IN  IF df = {} THEN [outcome |-> "empty", results |-> res]
        ELSE IF got = None \/ got[1].isnan
        THEN [outcome |-> "skipped", results |-> res]
        ELSE LET own == FindOptimal(df, got[1].value)
                 opt == IF prev = {} \/ own.best_stock_by_hour = None THEN own
                        ELSE LET last == CHOOSE r \in prev :
                                     \A q \in prev : q.day < r.day
                                         \/ (q.day = r.day /\ q.hour <= r.hour)
                                 sim == Simulate(df, last.stock, got[1].value)
                             IN  [best_initial_stock |-> last.stock,
                                  min_truncations |-> sim.truncations,
                                  best_stock_by_hour |-> Some(sim.stock_by_hour)]
             IN  IF opt.best_stock_by_hour = None
                 THEN [outcome |-> "AttributeError", results |-> res]
                 ELSE [outcome |-> "processed", results |-> res \o GroupRows(df, opt)]

\* One pass of the loop body, a group without capacity run with capacity 0.
GroupStepNoSkip(res, table, dict, day, loc_id) ==
    LET df == {r \in table : r.day = day /\ r.loc_id = loc_id}
        got == DictGet(dict, loc_id)
    IN  IF df = {} THEN [outcome |-> "empty", results |-> res]
        ELSE LET c == IF got = None \/ got[1].isnan THEN 0 ELSE got[1].value
                 opt == FindOptimal(df, c)
             IN  IF opt.best_stock_by_hour = None
                 THEN [outcome |-> "AttributeError", results |-> res]
                 ELSE [outcome |-> "processed", results |-> res \o GroupRows(df, opt)]

\* One pass of the body of the (day, loc_id) loop (lines 122-149).  The
\* outcome is "empty" (line 127), "skipped" (line 132), "processed", or
\* "AttributeError": best_stock_by_hour is still None when no candidate was
\* scanned, and line 142 calls .items() on it.
GroupStep(res, table, dict, day, loc_id) ==
    LET df == {r \in table : r.day = day /\ r.loc_id = loc_id}
        got == DictGet(dict, loc_id)
    IN  IF df = {} THEN [outcome |-> "empty", results |-> res]
        ELSE IF got = None \/ got[1].isnan
        THEN [outcome |-> "skipped", results |-> res]
        ELSE LET opt == FindOptimal(df, got[1].value)
             IN  IF opt.best_stock_by_hour = None
                 THEN [outcome |-> "AttributeError", results |-> res]
                 ELSE [outcome |-> "processed", results |-> res \o GroupRows(df, opt)]

\* The (day, loc_id) pairs in the order of the two nested loops (114-124).
LoopPairs(table) ==
    LET ds == SortedSeq({r.day : r \in table})
        ls == SortedSeq({r.loc_id : r \in table})
    IN  [i \in 1 .. (Len(ds) * Len(ls)) |->
            << ds[((i - 1) \div Len(ls)) + 1], ls[((i - 1) % Len(ls)) + 1] >>]

RECURSIVE RunLoop(_, _, _, _)
\* The nested loops from results res over the remaining pairs ps; the loop
\* ends at the first AttributeError.
RunLoop(res, table, dict, ps) ==
    IF ps = << >> THEN [outcome |-> "looped", results |-> res]
    ELSE LET g == GroupStep(res, table, dict, Head(ps)[1], Head(ps)[2])
         IN  IF g.outcome = "AttributeError" THEN g
             ELSE RunLoop(g.results, table, dict, Tail(ps))

\* (day, hour, loc_id) order of sort_values (line 163)
KeyLeq(a, b) ==
    \/ a.day < b.day
    \/ a.day = b.day /\ a.hour < b.hour
    \/ a.day = b.day /\ a.hour = b.hour /\ a.loc_id <= b.loc_id

RECURSIVE SortRows(_)
\* df.sort_values(['day', 'hour', 'loc_id']) of a set of rows with distinct keys
SortRows(S) ==
    IF S = {} THEN << >>
    ELSE LET m == CHOOSE x \in S : \A y \in S : KeyLeq(x, y)
         IN  << m >> \o SortRows(S \ {m})

\* df_stock[available_columns], sorted (lines 155-163)
OutputOf(res) ==
    SortRows({[day |-> r.day, hour |-> r.hour, loc_id |-> r.loc_id,
               stock |-> r.stock, net_demand |-> r.net_demand] : r \in Range(res)})

\* ----------------------------------------------------------- the state
VARIABLES
    pc,                 \* where the running function is
    df_day_station,     \* the rows of one (day, station) group
    capacity,           \* the capacity the simulator / optimizer was called with
    initial_stock,      \* the simulator's initial_stock
    hours,              \* the hours the simulator's loop has still to visit
    current_stock,      \* the simulator's current_stock
    stock_by_hour,      \* the simulator's stock_by_hour
    truncations,        \* the simulator's truncations
    cands,              \* the candidates the optimizer's scan has still to try
    best_initial_stock, \* the optimizer's incumbent
    min_truncations,    \* its truncations (Inf before the first candidate)
    best_stock_by_hour, \* its trajectory (None before the first candidate)
    df_test,            \* create_stock_csv: the demand table
    capacity_dict,      \* create_stock_csv: loc_id -> capacity
    todo,               \* the (day, loc_id) pairs the nested loops have still to visit
    results,            \* the rows appended so far
    df_stock,           \* returned: the full rows (None until the return)
    df_stock_output     \* returned: the sorted output columns (None until the return)

simVars == << initial_stock, hours, current_stock, stock_by_hour, truncations >>
optVars == << cands, best_initial_stock, min_truncations, best_stock_by_hour >>
runVars == << df_test, capacity_dict, todo, results, df_stock, df_stock_output >>
vars == << pc, df_day_station, capacity, simVars, optVars, runVars >>

simIdle == initial_stock = 0 /\ hours = << >> /\ current_stock = 0
           /\ stock_by_hour = << >> /\ truncations = 0
optIdle == cands = << >> /\ best_initial_stock = 0 /\ min_truncations = Inf
           /\ best_stock_by_hour = None
runIdle == df_test = {} /\ capacity_dict = << >> /\ todo = << >> /\ results = << >>
           /\ df_stock = None /\ df_stock_output = None

\* ------------------------------------------------------------ the inputs
\* A (day, station) group: one row per hour of a non-empty set of hours.
Groups ==
    UNION {{{Row(1, h, 1, f[h]) : h \in H} : f \in [H -> Demands]} :
           H \in (SUBSET Hours) \ {{}}}

\* Whole runs: each (day, station) has the hours 0 .. n-1 for some n (possibly
\* none), the table has at most MaxRows rows.
RunDemands == {0 - 1, MaxDemand}
RunCapacities == {0 - Scale, 0 - 1, 0, Scale, MaxCapacity}
GroupSeqs == UNION {[1 .. n -> RunDemands] : n \in 0 .. MaxHours}
RECURSIVE SumLen(_, _)
SumLen(g, K) ==
    IF K = {} THEN 0
    ELSE LET k == CHOOSE x \in K : TRUE IN Len(g[k]) + SumLen(g, K \ {k})
TableOf(g) ==
    UNION {{Row(k[1], i - 1, k[2], g[k][i]) : i \in 1 .. Len(g[k])} : k \in DOMAIN g}
Tables ==
    {TableOf(g) : g \in {x \in [Days \X Stations -> GroupSeqs] :
                           SumLen(x, Days \X Stations) <= MaxRows}}
Entries == {NaN} \cup {Num(c) : c \in RunCapacities}
Dicts == UNION {[D -> Entries] : D \in SUBSET Stations}

\* ------------------------------- calculate_stock_for_initial_value, stepwise
SimInit ==
    /\ pc = "sim"
    /\ df_day_station \in Groups
    /\ capacity \in Capacities
    /\ initial_stock \in InitialStocks
    /\ hours = HoursOf(df_day_station)
    /\ current_stock = initial_stock
    /\ stock_by_hour = << >>
    /\ truncations = 0
    /\ optIdle /\ runIdle

\* One pass of the hour loop (lines 53-73).
SimHour ==
    /\ pc = "sim" /\ hours # << >>
    /\ LET st == SimBody([current_stock |-> current_stock,
                          stock_by_hour |-> stock_by_hour,
                          truncations |-> truncations],
                         df_day_station, Head(hours), capacity)
       IN  /\ current_stock' = st.current_stock
           /\ stock_by_hour' = st.stock_by_hour
           /\ truncations' = st.truncations
    /\ hours' = Tail(hours)
    /\ UNCHANGED << pc, df_day_station, capacity, initial_stock, optVars, runVars >>

\* return stock_by_hour, truncations (line 75)
SimReturn ==
    /\ pc = "sim" /\ hours = << >>
    /\ pc' = "returned"
    /\ UNCHANGED << df_day_station, capacity, simVars, optVars, runVars >>

SimNext == SimHour \/ SimReturn
SimSpec == SimInit /\ [][SimNext]_vars

\* --------------------------------------- find_optimal_initial_stock, stepwise
OptInit ==
    /\ pc = "scan"
    /\ df_day_station \in Groups
    /\ capacity \in Capacities
    /\ cands = Candidates(capacity)
    /\ best_initial_stock = OptStart.best_initial_stock
    /\ min_truncations = OptStart.min_truncations
    /\ best_stock_by_hour = OptStart.best_stock_by_hour
    /\ simIdle /\ runIdle

\* One candidate of the scan (lines 94-102).
OptTry ==
    /\ pc = "scan" /\ cands # << >>
    /\ LET b == OptBody([best_initial_stock |-> best_initial_stock,
                         min_truncations |-> min_truncations,
                         best_stock_by_hour |-> best_stock_by_hour],
                        df_day_station, Head(cands), capacity)
       IN  /\ best_initial_stock' = b.best_initial_stock
           /\ min_truncations' = b.min_truncations
           /\ best_stock_by_hour' = b.best_stock_by_hour
    /\ cands' = Tail(cands)
    /\ UNCHANGED << pc, df_day_station, capacity, simVars, runVars >>

\* return best_initial_stock, best_stock_by_hour, min_truncations (line 104)
OptReturn ==
    /\ pc = "scan" /\ cands = << >>
    /\ pc' = "returned"
    /\ UNCHANGED << df_day_station, capacity, simVars, optVars, runVars >>

OptNext == OptTry \/ OptReturn
OptSpec == OptInit /\ [][OptNext]_vars

\* ------------------------------------------------- create_stock_csv, stepwise
Init ==
    /\ pc = "loop"
    /\ df_test \in Tables
    /\ capacity_dict \in Dicts
    /\ todo = LoopPairs(df_test)
    /\ results = << >>
    /\ df_stock = None
    /\ df_stock_output = None
    /\ df_day_station = {} /\ capacity = 0
    /\ simIdle /\ optIdle

\* The loop body on the next (day, loc_id) pair.
NextStep == GroupStep(results, df_test, capacity_dict, Head(todo)[1], Head(todo)[2])

\* len(df_day_station) == 0: continue (lines 127-129)
SkipEmptyGroup ==
    /\ pc = "loop" /\ todo # << >>
    /\ NextStep.outcome = "empty"
    /\ todo' = Tail(todo)
    /\ UNCHANGED << pc, df_day_station, capacity, simVars, optVars,
                    df_test, capacity_dict, results, df_stock, df_stock_output >>

\* capacity is None or NaN: continue (lines 131-134)
SkipMissingCapacity ==
    /\ pc = "loop" /\ todo # << >>
    /\ NextStep.outcome = "skipped"
    /\ todo' = Tail(todo)
    /\ UNCHANGED << pc, df_day_station, capacity, simVars, optVars,
                    df_test, capacity_dict, results, df_stock, df_stock_output >>

\* The optimizer's result appended, one row per hour (lines 137-149).
ProcessGroup ==
    /\ pc = "loop" /\ todo # << >>
    /\ NextStep.outcome = "processed"
    /\ results' = NextStep.results
    /\ todo' = Tail(todo)
    /\ UNCHANGED << pc, df_day_station, capacity, simVars, optVars,
                    df_test, capacity_dict, df_stock, df_stock_output >>

\* The optimizer scanned no candidate and returned None for the trajectory:
\* line 142 raises AttributeError and create_stock_csv returns nothing.
FailOnNoCandidate ==
    /\ pc = "loop" /\ todo # << >>
    /\ NextStep.outcome = "AttributeError"
    /\ pc' = "AttributeError"
    /\ UNCHANGED << df_day_station, capacity, simVars, optVars, runVars >>

\* The loops are over and there are rows: the frames are built, the output
\* columns selected and sorted, both returned (lines 152-165).
Finish ==
    /\ pc = "loop" /\ todo = << >> /\ results # << >>
    /\ df_stock' = Some(results)
    /\ df_stock_output' = Some(OutputOf(results))
    /\ pc' = "done"
    /\ UNCHANGED << df_day_station, capacity, simVars, optVars,
                    df_test, capacity_dict, todo, results >>

\* The loops are over and no row was appended: pd.DataFrame([]) has no
\* columns, available_columns is empty, and pandas' sort_values raises
\* KeyError for a column the frame does not have (lines 152-163).
FailOnEmptyResults ==
    /\ pc = "loop" /\ todo = << >> /\ results = << >>
    /\ pc' = "KeyError"
    /\ UNCHANGED << df_day_station, capacity, simVars, optVars, runVars >>

Next ==
    \/ SkipEmptyGroup
    \/ SkipMissingCapacity
    \/ ProcessGroup
    \/ FailOnNoCandidate
    \/ Finish
    \/ FailOnEmptyResults
Spec == Init /\ [][Next]_vars

\* =================================================================
\* The claims about calculate_stock_for_initial_value (under SimSpec)
\* =================================================================
Max0(x) == IF x > 0 THEN x ELSE 0

RECURSIVE UnclampedCostFrom(_, _, _, _)
\* Sum over the hours hs of max(0, -u) + max(0, u - cap), u the running sum
\* propagated from u0 without any clamping.
UnclampedCostFrom(df, hs, u0, cap) ==
    IF hs = << >> THEN 0
    ELSE LET u == u0 + NetDemand(df, Head(hs))
         IN  Max0(0 - u) + Max0(u - cap) + UnclampedCostFrom(df, Tail(hs), u, cap)

RECURSIVE StaysWithinFrom(_, _, _, _)
\* The unclamped running sum stays in [0, cap] after every hour of hs.
StaysWithinFrom(df, hs, u0, cap) ==
    IF hs = << >> THEN TRUE
    ELSE LET u == u0 + NetDemand(df, Head(hs))
         IN  0 <= u /\ u <= cap /\ StaysWithinFrom(df, Tail(hs), u, cap)

RECURSIVE RecordedCost(_, _, _, _)
\* Sum over the hours H of max(0, -n) + max(0, n - cap), n the stock recorded
\* for the hour plus the hour's net demand.
RecordedCost(df, sbh, H, cap) ==
    IF H = {} THEN 0
    ELSE LET h == CHOOSE x \in H : TRUE
             n == sbh[h] + NetDemand(df, h)
         IN  Max0(0 - n) + Max0(n - cap) + RecordedCost(df, sbh, H \ {h}, cap)

FirstHour(df) == Head(HoursOf(df))
LastHour(df) == HoursOf(df)[Len(HoursOf(df))]
\* df with the net demand of its last hour replaced by d
WithLastDemand(df, d) ==
    {IF r.hour = LastHour(df) THEN Row(r.day, r.hour, r.loc_id, d) ELSE r : r \in df}

\* C1: for a capacity >= 0 and an initial stock in [0, capacity], every value
\* recorded in stock_by_hour lies in [0, capacity], at every step of the hour
\* loop (stated for every capacity >= 0, whole or not).
C1_RecordedStockWithinCapacity ==
    (pc \in {"sim", "returned"} /\ capacity >= 0
        /\ 0 <= initial_stock /\ initial_stock <= capacity)
    => \A h \in DOMAIN stock_by_hour :
           0 <= stock_by_hour[h] /\ stock_by_hour[h] <= capacity

\* C1 witness: a whole capacity, a candidate initial stock, an overflow cut
\* at an earlier hour and the clamped value recorded at a later one.
C1_Witness ==
    /\ pc = "returned" /\ capacity >= Scale /\ capacity % Scale = 0
    /\ initial_stock \in 0 .. capacity /\ initial_stock % Scale = 0
    /\ Cardinality(DOMAIN stock_by_hour) >= 2
    /\ stock_by_hour[FirstHour(df_day_station)]
           + NetDemand(df_day_station, FirstHour(df_day_station)) > capacity
    /\ stock_by_hour[LastHour(df_day_station)] = capacity

\* C4 as stated, on the inputs the optimizer supplies (a capacity >= 0 and an
\* initial stock in [0, capacity]): the returned truncations equal the cost of
\* the trajectory propagated WITHOUT clamping from the same initial stock.
C4_TruncationsEqualUnclampedCost ==
    (pc = "returned" /\ 0 <= initial_stock /\ initial_stock <= capacity)
    => truncations = UnclampedCostFrom(df_day_station, HoursOf(df_day_station),
                                       initial_stock, capacity)

\* C4 amended: for a capacity >= 0 and any initial stock, at every step of the
\* loop the truncations equal the sum, over the hours visited, of
\* max(0, -n_h) + max(0, n_h - capacity) where n_h is the stock recorded at the
\* start of hour h (clamped by the hours before it) plus hour h's net demand.
C4_TruncationsEqualRecordedCost ==
    (pc \in {"sim", "returned"} /\ capacity >= 0)
    => truncations = RecordedCost(df_day_station, stock_by_hour,
                                  DOMAIN stock_by_hour, capacity)

\* C4 witness: a finished simulation whose truncations differ from the
\* unclamped cost (an earlier hour was clamped) and are not zero.
C4_Witness ==
    /\ pc = "returned" /\ truncations > 0
    /\ 0 <= initial_stock /\ initial_stock <= capacity
    /\ truncations # UnclampedCostFrom(df_day_station, HoursOf(df_day_station),
                                       initial_stock, capacity)

\* C5: for an initial stock in [0, capacity] the returned truncations are
\* >= 0, and they are 0 exactly when the unclamped running sum stays in
\* [0, capacity] after every hour, the last one included.
C5_ZeroTruncationsIffNeverLeaves ==
    (pc = "returned" /\ 0 <= initial_stock /\ initial_stock <= capacity)
    => /\ truncations >= 0
       /\ (truncations = 0) <=>
              StaysWithinFrom(df_day_station, HoursOf(df_day_station),
                              initial_stock, capacity)

\* C5 witness: the running sum leaves [0, capacity] at the last hour only,
\* and the truncations are positive.
C5_Witness ==
    /\ pc = "returned" /\ 0 <= initial_stock /\ initial_stock <= capacity
    /\ Cardinality(df_day_station) >= 2
    /\ truncations > 0
    /\ LET h1 == FirstHour(df_day_station)
           u1 == initial_stock + NetDemand(df_day_station, h1)
       IN  0 <= u1 /\ u1 <= capacity

\* C9: the first hour's recorded stock is the initial stock; a group of one
\* record gets exactly one entry, the initial stock, whatever its net demand;
\* the last hour's net demand changes no recorded stock.
C9_StockAtStartOfHour ==
    /\ (pc \in {"sim", "returned"} /\ DOMAIN stock_by_hour # {})
       => stock_by_hour[FirstHour(df_day_station)] = initial_stock
    /\ (pc = "returned" /\ Cardinality(df_day_station) = 1)
       => /\ DOMAIN stock_by_hour = {FirstHour(df_day_station)}
          /\ stock_by_hour[FirstHour(df_day_station)] = initial_stock
    /\ pc = "returned"
       => \A d \in Demands :
              Simulate(WithLastDemand(df_day_station, d), initial_stock,
                       capacity).stock_by_hour = stock_by_hour

\* C9 witness: a single record whose net demand is cut (truncations > 0)
\* while the one recorded stock is the initial stock.
C9_Witness ==
    /\ pc = "returned" /\ Cardinality(df_day_station) = 1
    /\ truncations > 0
    /\ 0 <= initial_stock /\ initial_stock <= capacity
    /\ stock_by_hour[FirstHour(df_day_station)] = initial_stock

\* =================================================================
\* The claims about find_optimal_initial_stock (under OptSpec)
\* =================================================================
\* The truncations the simulator yields for the group from initial stock k.
CostOf(k) == Simulate(df_day_station, k, capacity).truncations
\* The candidates of the scan, as a set.
CandidateSet == {k * Scale : k \in 0 .. IntOf(capacity)}

C3_SmallestCandidateWinsTies ==
    (pc = "returned" /\ CandidateSet # {})
    => /\ best_initial_stock \in CandidateSet
       /\ min_truncations = CostOf(best_initial_stock)
       /\ \A k \in CandidateSet : CostOf(best_initial_stock) <= CostOf(k)
       /\ \A k \in CandidateSet :
              CostOf(k) = CostOf(best_initial_stock) => best_initial_stock <= k
       /\ StaysWithinFrom(df_day_station, HoursOf(df_day_station), 0, capacity)
              => (min_truncations = 0 /\ best_initial_stock = 0)

\* C3 witness: a tie at the minimum among candidates that are not the first
\* one, the smaller of them returned.
C3_Witness ==
    /\ pc = "returned" /\ best_initial_stock > 0
    /\ \E k \in CandidateSet : k > best_initial_stock /\ CostOf(k) = min_truncations

\* =================================================================
\* The claims about create_stock_csv (under Spec)
\* =================================================================
\* The station has no capacity entry: absent from capacity_dict, or NaN.
HasNoCapacity(loc_id) ==
    DictGet(capacity_dict, loc_id) = None \/ DictGet(capacity_dict, loc_id)[1].isnan
\* The station's capacity, when it has one.
CapacityOf(loc_id) == capacity_dict[loc_id].value
ValidCapacity(loc_id) == ~HasNoCapacity(loc_id) /\ CapacityOf(loc_id) >= 0
NegativeCapacity(loc_id) == ~HasNoCapacity(loc_id) /\ CapacityOf(loc_id) < 0

\* The rows of df_test of one (day, station) group.
GroupOf(day, loc_id) == {r \in df_test : r.day = day /\ r.loc_id = loc_id}
\* The (day, station) groups that have rows.
GroupKeys == {<< r.day, r.loc_id >> : r \in df_test}
\* The pairs the nested loops are done with.
Passed == Range(LoopPairs(df_test)) \ Range(todo)
\* The rows of a sequence of rows that belong to one group, in order.
RowsFor(res, day, loc_id) ==
    LET OfGroup(r) == r.day = day /\ r.loc_id = loc_id
    IN  SelectSeq(res, OfGroup)
\* The next pair of the loops is a group with rows whose station has no capacity.
AtGroupWithoutCapacity ==
    /\ pc = "loop" /\ todo # << >>
    /\ GroupOf(Head(todo)[1], Head(todo)[2]) # {}
    /\ HasNoCapacity(Head(todo)[2])

\* C6, the state part: no row of a station without capacity is ever appended
\* or returned; every group with rows and a valid capacity that the loops have
\* passed has one row per hour in results, and after the return in both
\* returned frames.
C6_Rows ==
    /\ \A r \in Range(results) : ~HasNoCapacity(r.loc_id)
    /\ \A k \in Passed \cap GroupKeys :
           ValidCapacity(k[2])
           => {r.hour : r \in Range(RowsFor(results, k[1], k[2]))}
                  = {r.hour : r \in GroupOf(k[1], k[2])}
    /\ pc = "done"
       => /\ \A r \in Range(df_stock[1]) \cup Range(df_stock_output[1]) :
                 ~HasNoCapacity(r.loc_id)
          /\ \A k \in GroupKeys :
                 ValidCapacity(k[2])
                 => \A q \in GroupOf(k[1], k[2]) :
                        /\ \E r \in Range(df_stock[1]) :
                               r.day = q.day /\ r.loc_id = q.loc_id /\ r.hour = q.hour
                        /\ \E r \in Range(df_stock_output[1]) :
                               r.day = q.day /\ r.loc_id = q.loc_id /\ r.hour = q.hour

C7_NegativeCapacityExcluded ==
    /\ pc # "AttributeError"
    /\ \A r \in Range(results) : ~NegativeCapacity(r.loc_id)

\* C8: every processed group (rows, and a capacity that is a number) that the
\* loops have passed has exactly one row per hour; the row's stock is what the
\* simulator records for that hour from the returned best_initial_stock; all
\* its rows carry that initial_stock, which lies in [0, capacity], and the
\* group's min_truncations.
C8_RowsOfProcessedGroup ==
    \A k \in Passed \cap GroupKeys :
        ~HasNoCapacity(k[2])
        => LET df == GroupOf(k[1], k[2])
               cap == CapacityOf(k[2])
               rows == RowsFor(results, k[1], k[2])
               opt == FindOptimal(df, cap)
           IN  /\ Len(rows) = Cardinality(df)
               /\ {r.hour : r \in Range(rows)} = {r.hour : r \in df}
               /\ \A r \in Range(rows) :
                      /\ r.initial_stock = opt.best_initial_stock
                      /\ 0 <= r.initial_stock /\ r.initial_stock <= cap
                      /\ r.total_truncations = opt.min_truncations
                      /\ r.stock = Simulate(df, r.initial_stock, cap).stock_by_hour[r.hour]
                      /\ r.net_demand = NetDemand(df, r.hour)

\* The run of create_stock_csv's loops on the rows of one group alone, with
\* no capacity entry but its own station's.
AloneRun(day, loc_id) ==
    LET table == GroupOf(day, loc_id)
        dict == [s \in (DOMAIN capacity_dict) \cap {loc_id} |-> capacity_dict[s]]
    IN  RunLoop(<< >>, table, dict, LoopPairs(table))

\* C10: the rows of a group depend on its own net demands and its station's
\* capacity only: whatever the other groups of the run are (other stations,
\* the same station on other days), the rows the run has for a group it has
\* passed are the rows of the run on that group alone, and so are the rows
\* returned for it.
C10_GroupRowsDependOnGroupOnly ==
    /\ \A k \in Passed \cap GroupKeys :
           RowsFor(results, k[1], k[2]) = AloneRun(k[1], k[2]).results
    /\ pc = "done"
       => \A k \in GroupKeys :
              /\ RowsFor(df_stock[1], k[1], k[2]) = AloneRun(k[1], k[2]).results
              /\ RowsFor(df_stock_output[1], k[1], k[2])
                     = OutputOf(AloneRun(k[1], k[2]).results)

\* C10 witness: a finished run with rows for one station on both days, the
\* second day not starting from the stock the first day ended its last hour
\* with, and rows of another station between them.
C10_Witness ==
    /\ pc = "done"
    /\ \E a, b, c \in Range(df_stock[1]) :
           /\ a.loc_id = b.loc_id /\ a.day < b.day
           /\ a.hour = LastHour(GroupOf(a.day, a.loc_id))
           /\ b.hour = FirstHour(GroupOf(b.day, b.loc_id))
           /\ b.stock # a.stock
           /\ c.loc_id # a.loc_id
           /\ ValidCapacity(a.loc_id) /\ ValidCapacity(c.loc_id)

====
